---- MODULE Spec2Model ----
(***************************************************************************)
(* py-steam: the authentication subsystem of WebClient / MobileClient      *)
(* (src/py_steam/client.py) with the identity model (steamid.py) and the   *)
(* login_required guard (utils.py).                                        *)
(*                                                                         *)
(* One Client object is shared by the caller threads of Threads.  Each     *)
(* thread is at a position pc[t] inside login / cli_login; the network     *)
(* (getrsakey, dologin, logout) answers nondeterministically.              *)
(***************************************************************************)
EXTENDS Integers, Sequences, FiniteSets, TLC

(* ------------------------------ bounds --------------------------------- *)
\* number of distinct getrsakey responses (key, timestamp) the server can give
MaxKeys == 2
\* number of distinct captcha gids the server can issue
MaxGid == 2
\* number of login attempts (calls of login that get past `if self.logged_on`)
\* made on the Client
MaxAttempts == 2

(* --------------------------- value domains ----------------------------- *)
\* None in an attribute that otherwise holds a string
None == "None"
\* None (or no value: an unassigned attribute, a key absent from a response)
\* where the value is otherwise an object or a number; Some(x) is the value x
Nothing == <<>>
Some(x) == <<x>>

Threads == {1, 2}
Usernames == {"alice", "bob"}
Passwords == {"pw1", "pw2"}
CaptchaTexts == {"", "cap"}
EmailCodes == {"", "mail1"}
TwoFactorCodes == {"", "tfa1"}
Languages == {"english"}
OtherLanguages == {"german"}
EmailDomains == {"mail.com"}
OauthTokens == {"abc"}
Gids == 1..MaxGid
KeyIds == 1..MaxKeys
\* a response message, as the phrases it is made of
Messages == {<<>>, <<"There have been ", "too many login failures", " from your network">>,
             <<"Incorrect login">>}
\* needle in message
Contains(message, needle) == \E i \in 1..Len(message) : message[i] = needle

(* --------------------------- identity model ---------------------------- *)
\* Python integers are unbounded; a number is kept as <<t, a, b, c>> meaning
\* t*2^48 + a*2^32 + b*2^16 + c with 0 <= a, b, c < 2^16 and t any integer.
\* the empty string, where the string is a token or a rendered number
EmptyStr == [isdigit |-> FALSE, n |-> <<0, 0, 0, 0>>]
\* str(n) for a number n >= 0
Str(n) == [isdigit |-> TRUE, n |-> n]
Limb == 65536
Zero == <<0, 0, 0, 0>>
\* 76561197960265728 = 0x0110000100000000
STEAM64_BASE == <<272, 1, 0, 0>>

\* 0 < value < 2 ** 32
InShortRange(v) == v[1] = 0 /\ v[2] = 0 /\ (v[3] > 0 \/ v[4] > 0)

\* value < 2 ** 64 (value is non-negative: it came from isdigit())
Below64(v) == v[1] < Limb

\* value + 76561197960265728
AddBase(v) ==
    LET a == v[2] + STEAM64_BASE[2]
    IN  <<v[1] + STEAM64_BASE[1] + (a \div Limb), a % Limb, v[3], v[4]>>

\* value - 76561197960265728
SubBase(v) ==
    LET a == v[2] - STEAM64_BASE[2]
    IN  IF a >= 0 THEN <<v[1] - STEAM64_BASE[1], a, v[3], v[4]>>
                  ELSE <<v[1] - STEAM64_BASE[1] - 1, a + Limb, v[3], v[4]>>

\* a token handed to SteamID(): str(id), with isdigit() and int(value)
Token(isdigit, n) == [isdigit |-> isdigit, n |-> n]
\* "76561198000000001" and "76561198000000002" (base + 39734273, + 39734274)
Tok1 == Token(TRUE, <<272, 1, 606, 19457>>)
Tok2 == Token(TRUE, <<272, 1, 606, 19458>>)
Tokens == {Tok1, Tok2}

\* as extract_steamids, with the 64-bit branch keeping the value as account id
extract_steamids_unshifted(id) ==
    IF id.isdigit
    THEN IF InShortRange(id.n)
         THEN [steamid64 |-> AddBase(id.n), accountid |-> id.n]
         ELSE IF Below64(id.n)
              THEN [steamid64 |-> id.n, accountid |-> id.n]
              ELSE [steamid64 |-> Zero, accountid |-> Zero]
    ELSE [steamid64 |-> Zero, accountid |-> Zero]

extract_steamids(id) ==
    IF id.isdigit
    THEN IF InShortRange(id.n)
         THEN [steamid64 |-> AddBase(id.n), accountid |-> id.n]
         ELSE IF Below64(id.n)
              THEN [steamid64 |-> id.n, accountid |-> SubBase(id.n)]
              ELSE [steamid64 |-> Zero, accountid |-> Zero]
    ELSE [steamid64 |-> Zero, accountid |-> Zero]

SteamID(id) == extract_steamids(id)

(* ------------------------- class structure ----------------------------- *)
\* Python rewrites a name __x used inside the body of class C to _C__x.
Mangle(cls, name) == "_" \o cls \o name

\* the private methods each class body defines, under their mangled names
ClassDict(cls) ==
    IF cls = "WebClient"
    THEN {Mangle("WebClient", "__load_key"), Mangle("WebClient", "__send_login"),
          Mangle("WebClient", "__finalize_login")}
    ELSE {Mangle("MobileClient", "__send_login"), Mangle("MobileClient", "__finalize_login")}

\* method resolution order of an instance of cls
MRO(cls) == IF cls = "MobileClient" THEN <<"MobileClient", "WebClient">> ELSE <<"WebClient">>

\* the class whose definition an attribute lookup of `attr` on an instance of cls finds
Resolve(cls, attr) ==
    LET hits == {i \in 1..Len(MRO(cls)) : attr \in ClassDict(MRO(cls)[i])}
    IN  IF hits = {} THEN None
        ELSE MRO(cls)[CHOOSE i \in hits : \A j \in hits : i <= j]

\* login is defined in the body of WebClient: its self.__send_login and
\* self.__finalize_login are the names mangled for WebClient
SendLoginImpl(cls) == Resolve(cls, Mangle("WebClient", "__send_login"))
FinalizeImpl(cls) == Resolve(cls, Mangle("WebClient", "__finalize_login"))

(* ------------------------------ cookies -------------------------------- *)
ServiceDomains == <<"store.steampowered.com", "help.steampowered.com", "steamcommunity.com">>
\* the host that answers /login/dologin/ (SteamUrl.COMMUNITY_URL)
ResponseDomain == "steamcommunity.com"

Cookie(name, value, domain, secure) ==
    [name |-> name, value |-> value, domain |-> domain, secure |-> secure]

\* The jar is kept in its iteration order (http.cookiejar walks domains, then
\* names, each in insertion order).  RequestsCookieJar.set keeps one cookie per
\* (domain, name): a later set replaces it in place, a new name goes after
\* the cookies of its domain, a new domain goes last.
SameSlot(x, c) == x.name = c.name /\ x.domain = c.domain

CookieSet(jar, c) ==
    LET idx == 1..Len(jar)
    IN  IF \E i \in idx : SameSlot(jar[i], c)
        THEN LET at == CHOOSE i \in idx : SameSlot(jar[i], c)
             IN  SubSeq(jar, 1, at - 1) \o <<c>> \o SubSeq(jar, at + 1, Len(jar))
        ELSE IF \E i \in idx : jar[i].domain = c.domain
             THEN LET last == CHOOSE i \in idx :
                                  /\ jar[i].domain = c.domain
                                  /\ \A j \in idx : jar[j].domain = c.domain => j <= i
                  IN  SubSeq(jar, 1, last) \o <<c>> \o SubSeq(jar, last + 1, Len(jar))
             ELSE Append(jar, c)

\* a loop of cookies.set calls, as its state <<jar, cookies still to set>>
RECURSIVE CookieSetLoop(_)
CookieSetLoop(st) ==
    IF st[2] = <<>> THEN st[1]
    ELSE CookieSetLoop(<<CookieSet(st[1], Head(st[2])), Tail(st[2])>>)

CookieSetAll(jar, cs) == CookieSetLoop(<<jar, cs>>)

\* session.cookies.pop(name, None): drops every cookie of that name
CookiePop(jar, name) ==
    LET Keep(x) == x.name # name IN SelectSeq(jar, Keep)

\* the cookie of that name held for that domain: Some(cookie) or Nothing
CookieGet(jar, name, domain) ==
    IF \E i \in 1..Len(jar) : jar[i].name = name /\ jar[i].domain = domain
    THEN LET i == CHOOSE i \in 1..Len(jar) : jar[i].name = name /\ jar[i].domain = domain
         IN  Some(jar[i])
    ELSE Nothing

\* the cookies a successful dologin response can set for its own domain
LoginCookie == Cookie("steamLoginSecure", "tokA", ResponseDomain, TRUE)
SetCookieChoices == {<<>>, <<LoginCookie>>}
\* the same cookie as a later login gets it: under a new value
RenewedLoginCookie == Cookie("steamLoginSecure", "tokB", ResponseDomain, TRUE)
RenewingSetCookieChoices == SetCookieChoices \cup {<<RenewedLoginCookie>>}
\* the cookies login itself writes on every service domain
SessionCookieNames == {"Steam_Language", "birthtime", "sessionid"}

(* --------------------- crypto (py_steam.crypto) ------------------------ *)
\* the public key built from a getrsakey response (modulus, exponent)
rsa_publickey(mod, exp) == [mod |-> mod, exp |-> exp]

\* PKCS#1 v1.5 encryption: a ciphertext only the holder of the private half
\* of `k` opens, to `plaintext` (the random padding is left out)
pkcs1v15_encrypt(k, plaintext) == [under |-> k, plaintext |-> plaintext]

b64encode(x) == [b64 |-> x]

\* SHA-1: the 20-byte digest of `data` (which digest is of no consequence
\* here; this one mixes the bytes of data)
sha1_hash(data) ==
    [i \in 1..20 |-> (data[i] + 7 * data[i + 12] + 31 * i) % 256]

(* ----------------------- session ids (utils.py) ------------------------ *)
\* binascii.hexlify: two lower-case hexadecimal digits per byte
HexDigits == <<"0", "1", "2", "3", "4", "5", "6", "7", "8", "9", "a", "b", "c", "d", "e", "f">>
RECURSIVE hexlify(_)
hexlify(bytes) ==
    IF bytes = <<>> THEN ""
    ELSE HexDigits[(Head(bytes) \div 16) + 1] \o HexDigits[(Head(bytes) % 16) + 1]
            \o hexlify(Tail(bytes))

\* as generate_session_id, without the [:32]
generate_session_id_unsliced(random) == hexlify(sha1_hash(random))

\* hexlify(sha1_hash(urandom(32)))[:32].decode('ascii'); random is what
\* urandom(32) returned
generate_session_id(random) == SubSeq(hexlify(sha1_hash(random)), 1, 32)

\* what urandom(32) can return: 32 bytes.  Two readings for most runs, more
\* (all bytes 0 and all bytes 255 among them) for a run about the ids.
Urandom(k, m) == [i \in 1..32 |-> (i * k + m) % 256]
UrandomA == Urandom(37, 0)
UrandomB == Urandom(91, 5)
ManyUrandom == {Urandom(k, m) : k \in 0..7, m \in {0, 85, 170, 255}}
Entropy(server) == IF server = "ids" THEN ManyUrandom ELSE {UrandomA, UrandomB}
SessionIds(server) == {generate_session_id(r) : r \in Entropy(server)}
sidA == generate_session_id(UrandomA)
sidB == generate_session_id(UrandomB)

(* --------------------------- the server -------------------------------- *)
\* getrsakey answers: publickey_mod / publickey_exp / timestamp.  Answer i
\* carries key i and timestamp i; `user` is the username the key is for.
Hex(v) == [hex |-> v]
\* int(text, 16)
HexInt(text) == text.hex
RsaResponses(user) ==
    {[publickey_mod |-> Hex(<<user, i>>), publickey_exp |-> Hex("010001"), timestamp |-> i]
        : i \in KeyIds}

\* what session.post comes back with: a response of some status code and
\* its body, or a RequestException (no response)
Reply(status, json) == [status |-> status, json |-> json]
RsaReplies(user) ==
    {Reply("200", Some(r)) : r \in RsaResponses(user)}
    \cup {Reply("500", Some(CHOOSE r \in RsaResponses(user) : TRUE)), Reply("network", Nothing)}

Flags == [success : BOOLEAN, login_complete : BOOLEAN, captcha_needed : BOOLEAN,
          clear_password_field : BOOLEAN, emailauth_needed : BOOLEAN,
          requires_twofactor : BOOLEAN]

\* success payloads: the web shape carries transfer_parameters.steamid, the
\* mobile shape carries oauth, a JSON string holding steamid and oauth_token
WebPayloads == {[transfer_parameters |-> Some([steamid |-> s]), oauth |-> Nothing] : s \in Tokens}
MobilePayloads ==
    {[transfer_parameters |-> Nothing, oauth |-> Some([steamid |-> s, oauth_token |-> o])]
        : s \in Tokens, o \in OauthTokens}
BothPayloads ==
    {[transfer_parameters |-> Some([steamid |-> Tok1]),
      oauth |-> Some([steamid |-> Tok2, oauth_token |-> o])] : o \in OauthTokens}
NoPayload == [transfer_parameters |-> Nothing, oauth |-> Nothing]

\* a WebClient is answered in the web shape; a MobileClient may be answered
\* in either shape, or with both fields
Payloads(cls) ==
    IF cls = "WebClient" THEN WebPayloads
    ELSE WebPayloads \cup MobilePayloads \cup BothPayloads

\* the JSON body of a 200 answer to dologin, with the cookies it sets
Response(f, m, g, d, es, pay, sc) ==
    [success |-> f.success, login_complete |-> f.login_complete,
     captcha_needed |-> f.captcha_needed, clear_password_field |-> f.clear_password_field,
     emailauth_needed |-> f.emailauth_needed, requires_twofactor |-> f.requires_twofactor,
     message |-> m, captcha_gid |-> g, emaildomain |-> d, emailsteamid |-> es,
     transfer_parameters |-> pay.transfer_parameters, oauth |-> pay.oauth,
     set_cookie |-> sc]

\* the flags a server sets when it sets those of one rule only (and success
\* with or without login_complete)
Only(names) == [n \in DOMAIN [success |-> 0, login_complete |-> 0, captcha_needed |-> 0,
                              clear_password_field |-> 0, emailauth_needed |-> 0,
                              requires_twofactor |-> 0] |-> n \in names]
PlainFlags == {Only({}), Only({"success"}), Only({"success", "login_complete"}),
               Only({"captcha_needed"}), Only({"captcha_needed", "clear_password_field"}),
               Only({"emailauth_needed"}), Only({"requires_twofactor"})}

\* a plain server words its message only when no flag is set
MessageField(f, server) ==
    IF server = "any" \/ (server = "plain" /\ f = Only({})) THEN Messages ELSE {<<>>}
GidField(f) == IF f.captcha_needed THEN {Some(x) : x \in Gids} ELSE {Nothing}
DomainField(f) == IF f.emailauth_needed THEN EmailDomains ELSE {None}
EmailSteamidField(f) == IF f.emailauth_needed THEN {Some(x) : x \in Tokens} ELSE {Nothing}
PayloadField(f, cls) == IF f.success /\ f.login_complete THEN Payloads(cls) ELSE {NoPayload}
SetCookieField(f, server) ==
    IF f.success /\ f.login_complete
    THEN IF server = "cookies" THEN RenewingSetCookieChoices ELSE SetCookieChoices
    ELSE {<<>>}

\* a server that accepts, refuses or asks for a captcha
BriefFlags == {Only({}), Only({"success", "login_complete"}), Only({"captcha_needed"})}

\* a server that accepts or refuses, and renews its login cookie
CookieFlags == {Only({}), Only({"success", "login_complete"})}

\* the flag combinations of a server: "plain", "brief", "cookies" (and "ids",
\* "pair", which differ from it in the cookies and session ids) or "any"
ServerFlags(server) ==
    IF server = "any" THEN Flags
    ELSE IF server = "brief" THEN BriefFlags
    ELSE IF server \in {"cookies", "ids", "pair"} THEN CookieFlags
    ELSE PlainFlags

\* every answer the server can give a client of class cls: each field comes
\* with the flag that announces it
DoLoginResponses(cls, server) ==
    UNION {{Response(f, m, g, d, es, pay, sc) :
                m \in MessageField(f, server), g \in GidField(f), d \in DomainField(f),
                es \in EmailSteamidField(f), pay \in PayloadField(f, cls),
                sc \in SetCookieField(f, server)} : f \in ServerFlags(server)}

\* the body of an answer that is not a 200
ErrorBody == Response(Only({}), <<>>, Nothing, None, Nothing, NoPayload, <<>>)

DoLoginReplies(cls, server) ==
    {Reply("200", Some(r)) : r \in DoLoginResponses(cls, server)}
    \cup {Reply("500", Some(ErrorBody)), Reply("network", Nothing)}

(* ------------------------------- Client -------------------------------- *)
\* the outcomes of a login call: the session, or the exception raised
LoginExceptions == {"CaptchaRequired", "CaptchaRequiredLoginIncorrect", "EmailCodeRequired",
                    "TwoFactorCodeRequired", "TooManyLoginFailures", "LoginIncorrect"}
Session == "Session"

\* the class attributes of WebClient, and the session __init__ creates
NewClient(cls) ==
    [cls |-> cls, username |-> "", password |-> None, key |-> Nothing,
     timestamp |-> Nothing, logged_on |-> FALSE, session_id |-> None,
     captcha_gid |-> -1, captcha_code |-> "", email_domain |-> None,
     steamid |-> Nothing, oauth_token |-> None, cookies |-> <<>>]

\* get_rsa_key: the JSON of a 200 answer; HTTPError for any other status and
\* for a RequestException
get_rsa_key(reply) ==
    IF reply.status = "200" THEN [raised |-> None, json |-> reply.json]
    ELSE [raised |-> "HTTPError", json |-> Nothing]

\* as send_login_result, without the status check: any body is returned
send_login_result_nostatus(reply) ==
    IF reply.json # Nothing THEN [raised |-> None, json |-> reply.json]
    ELSE [raised |-> "HTTPError", json |-> Nothing]

\* __send_login from session.post on: the same
send_login_result(reply) ==
    IF reply.status = "200" THEN [raised |-> None, json |-> reply.json]
    ELSE [raised |-> "HTTPError", json |-> Nothing]

\* as need_key, without the test: every attempt fetches a key
need_key_always(c) == TRUE

\* __load_key: `if not self.key`
need_key(c) == c.key = Nothing

\* as classify, with the emailauth_needed branch written before captcha_needed
classify_email_first(resp) ==
    IF resp.success /\ resp.login_complete THEN Session
    ELSE IF resp.emailauth_needed THEN "EmailCodeRequired"
    ELSE IF resp.captcha_needed
         THEN IF resp.clear_password_field THEN "CaptchaRequiredLoginIncorrect"
              ELSE "CaptchaRequired"
    ELSE IF resp.requires_twofactor THEN "TwoFactorCodeRequired"
    ELSE IF Contains(resp.message, "too many login failures") THEN "TooManyLoginFailures"
    ELSE "LoginIncorrect"

\* the rule of login's if / elif chain that a response selects
classify(resp) ==
    IF resp.success /\ resp.login_complete THEN Session
    ELSE IF resp.captcha_needed
         THEN IF resp.clear_password_field THEN "CaptchaRequiredLoginIncorrect"
              ELSE "CaptchaRequired"
    ELSE IF resp.emailauth_needed THEN "EmailCodeRequired"
    ELSE IF resp.requires_twofactor THEN "TwoFactorCodeRequired"
    ELSE IF Contains(resp.message, "too many login failures") THEN "TooManyLoginFailures"
    ELSE "LoginIncorrect"

\* WebClient.__finalize_login: login_response['transfer_parameters']['steamid']
web_finalize_login(c, resp) ==
    IF resp.transfer_parameters = Nothing
    THEN [raised |-> "KeyError", client |-> c]
    ELSE [raised |-> None,
          client |-> [c EXCEPT !.steamid = Some(SteamID(resp.transfer_parameters[1].steamid))]]

\* MobileClient.__finalize_login: json.loads(login_response['oauth'])
mobile_finalize_login(c, resp) ==
    IF resp.oauth = Nothing
    THEN [raised |-> "KeyError", client |-> c]
    ELSE [raised |-> None,
          client |-> [c EXCEPT !.steamid = Some(SteamID(resp.oauth[1].steamid)),
                               !.oauth_token = resp.oauth[1].oauth_token]]

\* self.__finalize_login(resp) as written in WebClient.login
finalize_login(c, resp) ==
    IF FinalizeImpl(c.cls) = "MobileClient" THEN mobile_finalize_login(c, resp)
    ELSE web_finalize_login(c, resp)

\* for domain in [...]: cookies.set(cookie.name, cookie.value, domain, secure)
CopyToDomains(jar, cookie) ==
    CookieSetAll(jar, [i \in 1..Len(ServiceDomains) |->
                          Cookie(cookie.name, cookie.value, ServiceDomains[i], cookie.secure)])

\* for cookie in list(self.session.cookies): ... over the snapshot taken first
\* the loop's state is <<jar, cookies of the snapshot still to copy>>
RECURSIVE CopyCookiesLoop(_)
CopyCookiesLoop(st) ==
    IF st[2] = <<>> THEN st[1]
    ELSE CopyCookiesLoop(<<CopyToDomains(st[1], Head(st[2])), Tail(st[2])>>)

CopyCookies(jar, snapshot) == CopyCookiesLoop(<<jar, snapshot>>)

\* as SetSessionCookies, with the language cookie fixed to the default
SetSessionCookies_default_language(jar, domains, language, sid) ==
    CookieSetAll(jar, [i \in 1..(3 * Len(domains)) |->
                         LET domain == domains[((i - 1) \div 3) + 1]
                         IN  <<Cookie("Steam_Language", "english", domain, FALSE),
                               Cookie("birthtime", "-3333", domain, FALSE),
                               Cookie("sessionid", sid, domain, FALSE)>>[((i - 1) % 3) + 1]])

\* Steam_Language, birthtime and sessionid on each of the three domains
\* (for each domain in turn, the three cookies.set calls of lines 245-247)
SetSessionCookies(jar, domains, language, sid) ==
    CookieSetAll(jar, [i \in 1..(3 * Len(domains)) |->
                         LET domain == domains[((i - 1) \div 3) + 1]
                         IN  <<Cookie("Steam_Language", language, domain, FALSE),
                               Cookie("birthtime", "-3333", domain, FALSE),
                               Cookie("sessionid", sid, domain, FALSE)>>[((i - 1) % 3) + 1]])

\* as login_success, without the reset of the captcha state
login_success_keeps_captcha(c, resp, sid, language) ==
    LET c1 == [c EXCEPT !.logged_on = TRUE, !.password = ""]
        c2 == [c1 EXCEPT !.cookies = CopyCookies(c1.cookies, c1.cookies)]
        c3 == [c2 EXCEPT !.session_id = sid]
        c4 == [c3 EXCEPT !.cookies = SetSessionCookies(c3.cookies, ServiceDomains, language, sid)]
        fin == finalize_login(c4, resp)
    IN  [raised |-> IF fin.raised = None THEN Session ELSE fin.raised, client |-> fin.client]

\* the success branch of login; sid is what generate_session_id() returns
login_success(c, resp, sid, language) ==
    LET c1 == [c EXCEPT !.logged_on = TRUE, !.password = "", !.captcha_gid = -1,
                        !.captcha_code = ""]
        c2 == [c1 EXCEPT !.cookies = CopyCookies(c1.cookies, c1.cookies)]
        c3 == [c2 EXCEPT !.session_id = sid]
        c4 == [c3 EXCEPT !.cookies = SetSessionCookies(c3.cookies, ServiceDomains, language, sid)]
        fin == finalize_login(c4, resp)
    IN  [raised |-> IF fin.raised = None THEN Session ELSE fin.raised, client |-> fin.client]

\* as login_failure, with the captcha branch not recording the new gid
login_failure_keeps_gid(c, resp, rule) ==
    IF rule \in {"CaptchaRequired", "CaptchaRequiredLoginIncorrect"}
    THEN LET c1 == [c EXCEPT !.captcha_code = ""]
         IN  IF rule = "CaptchaRequiredLoginIncorrect" THEN [c1 EXCEPT !.password = ""] ELSE c1
    ELSE IF rule = "EmailCodeRequired"
    THEN [c EXCEPT !.email_domain = resp.emaildomain,
                   !.steamid = Some(SteamID(resp.emailsteamid[1]))]
    ELSE IF rule = "LoginIncorrect" THEN [c EXCEPT !.password = ""]
    ELSE c

\* as login_failure, with the password kept when clear_password_field is set
login_failure_keeps_password(c, resp, rule) ==
    IF rule \in {"CaptchaRequired", "CaptchaRequiredLoginIncorrect"}
    THEN [c EXCEPT !.captcha_gid = resp.captcha_gid[1], !.captcha_code = ""]
    ELSE IF rule = "EmailCodeRequired"
    THEN [c EXCEPT !.email_domain = resp.emaildomain,
                   !.steamid = Some(SteamID(resp.emailsteamid[1]))]
    ELSE IF rule = "LoginIncorrect" THEN [c EXCEPT !.password = ""]
    ELSE c

\* the else branch of login, for the rule `rule` of classify
login_failure(c, resp, rule) ==
    IF rule \in {"CaptchaRequired", "CaptchaRequiredLoginIncorrect"}
    THEN LET c1 == [c EXCEPT !.captcha_gid = resp.captcha_gid[1], !.captcha_code = ""]
         IN  IF rule = "CaptchaRequiredLoginIncorrect" THEN [c1 EXCEPT !.password = ""] ELSE c1
    ELSE IF rule = "EmailCodeRequired"
    THEN [c EXCEPT !.email_domain = resp.emaildomain,
                   !.steamid = Some(SteamID(resp.emailsteamid[1]))]
    ELSE IF rule = "LoginIncorrect" THEN [c EXCEPT !.password = ""]
    ELSE c

\* login after __send_login returned resp: the outcome and the client
login_classify(c, resp, sid, language) ==
    LET rule == classify(resp)
    IN  IF rule = Session THEN login_success(c, resp, sid, language)
        ELSE [raised |-> rule, client |-> login_failure(c, resp, rule)]

\* as web_send_login_data, with the account id sent as emailsteamid
web_send_login_data_accountid(c, captcha, email_code, twofactor_code) ==
    [username |-> c.username,
     password |-> b64encode(pkcs1v15_encrypt(c.key[1], c.password)),
     emailauth |-> email_code,
     emailsteamid |-> IF email_code # "" THEN Str(c.steamid[1].accountid) ELSE EmptyStr,
     twofactorcode |-> twofactor_code,
     captchagid |-> c.captcha_gid,
     captcha_text |-> captcha,
     loginfriendlyname |-> "webauth",
     rsatimestamp |-> c.timestamp[1],
     remember_login |-> "true",
     oauth_client_id |-> None,
     oauth_scope |-> None]

\* as web_send_login_data, with rsatimestamp read off the client's clock, as
\* donotcache is
web_send_login_data_clock(c, captcha, email_code, twofactor_code) ==
    [username |-> c.username,
     password |-> b64encode(pkcs1v15_encrypt(c.key[1], c.password)),
     emailauth |-> email_code,
     emailsteamid |-> IF email_code # "" THEN Str(c.steamid[1].steamid64) ELSE EmptyStr,
     twofactorcode |-> twofactor_code,
     captchagid |-> c.captcha_gid,
     captcha_text |-> captcha,
     loginfriendlyname |-> "webauth",
     rsatimestamp |-> 0,
     remember_login |-> "true",
     oauth_client_id |-> None,
     oauth_scope |-> None]

\* the form WebClient.__send_login posts (donotcache, a clock reading, left out)
web_send_login_data(c, captcha, email_code, twofactor_code) ==
    [username |-> c.username,
     password |-> b64encode(pkcs1v15_encrypt(c.key[1], c.password)),
     emailauth |-> email_code,
     emailsteamid |-> IF email_code # "" THEN Str(c.steamid[1].steamid64) ELSE EmptyStr,
     twofactorcode |-> twofactor_code,
     captchagid |-> c.captcha_gid,
     captcha_text |-> captcha,
     loginfriendlyname |-> "webauth",
     rsatimestamp |-> c.timestamp[1],
     remember_login |-> "true",
     oauth_client_id |-> None,
     oauth_scope |-> None]

\* the form MobileClient.__send_login posts
mobile_send_login_data(c, captcha, email_code, twofactor_code) ==
    [web_send_login_data(c, captcha, email_code, twofactor_code) EXCEPT
        !.loginfriendlyname = "mobileauth",
        !.oauth_client_id = "DE45CD61",
        !.oauth_scope = "read_profile write_profile read_client write_client"]

\* building the form raises AttributeError when it reads an attribute that is
\* not there: self.steamid.steamid64 of None, self.timestamp never assigned
send_login_raises(c, email_code) ==
    \/ (email_code # "" /\ c.steamid = Nothing)
    \/ c.timestamp = Nothing

\* self.__send_login(...) as written in WebClient.login: the form, and the
\* cookies in the jar while the request is out
send_login_data(c, captcha, email_code, twofactor_code) ==
    IF SendLoginImpl(c.cls) = "MobileClient"
    THEN mobile_send_login_data(c, captcha, email_code, twofactor_code)
    ELSE web_send_login_data(c, captcha, email_code, twofactor_code)

send_login_cookies(c) ==
    IF SendLoginImpl(c.cls) = "MobileClient"
    THEN CookieSetAll(c.cookies, <<Cookie("mobileClientVersion", "0 (2.1.3)", "", FALSE),
                                   Cookie("mobileClient", "android", "", FALSE)>>)
    ELSE c.cookies

\* the finally clause of MobileClient.__send_login
send_login_finally(c, jar) ==
    IF SendLoginImpl(c.cls) = "MobileClient"
    THEN CookiePop(CookiePop(jar, "mobileClientVersion"), "mobileClient")
    ELSE jar

(* ------------------------------- state --------------------------------- *)
VARIABLES
    client,     \* the Client object: its attributes and its session's cookie jar
    pc,         \* where each caller thread is
    inCli,      \* the thread's login call was made by cli_login
    args,       \* the thread's arguments (cli_login: its local variables)
    captcha,    \* login's local captcha, after line 227
    rsaResp,    \* __load_key's local resp, between its two assignments
    inflight,   \* the last request of the thread's login call, and how it ended
    resp,       \* login's local resp, until login's frame is left
    outcome,    \* what the thread's last finished login call returned or raised
    server,     \* which flag combinations the server's answers take
    left,       \* how many more login attempts the callers will make
    io,         \* the requests sent and prompts issued by the last step, and
                \* what cli_login or a login_required method returned or raised
    peer        \* the other Client instance of the program, if it made one: its
                \* attributes while a method of `client` runs, and which it is

vars == <<client, pc, inCli, args, captcha, rsaResp, inflight, resp, outcome, server, left, io, peer>>

Classes == {"WebClient", "MobileClient"}

\* the accounts the caller knows: a username with its password
Credentials == {<<"alice", "pw1">>, <<"bob", "pw2">>}
ArgSets == {a \in [username : Usernames, password : Passwords, captcha : CaptchaTexts,
                   email_code : EmailCodes, twofactor_code : TwoFactorCodes,
                   language : Languages] : <<a.username, a.password>> \in Credentials}
NoArgs == [username |-> "", password |-> "", captcha |-> "", email_code |-> "",
           twofactor_code |-> "", language |-> "english"]

IO(t, sent, prompts, result) == [by |-> t, sent |-> sent, prompts |-> prompts, result |-> result]

\* no second instance
NoPeer == [id |-> 0, attrs |-> NewClient("WebClient")]

\* the threads of `running` may call; the others never start
InitWith(cls, running, flags, n) ==
    /\ peer = NoPeer
    /\ client = NewClient(cls)
    /\ server = flags
    /\ left = n
    /\ pc = [t \in Threads |-> IF t \in running THEN "idle" ELSE "off"]
    /\ inCli = [t \in Threads |-> FALSE]
    /\ args = [t \in Threads |-> NoArgs]
    /\ captcha = [t \in Threads |-> ""]
    /\ rsaResp = [t \in Threads |-> Nothing]
    /\ inflight = [t \in Threads |-> Nothing]
    /\ resp = [t \in Threads |-> Nothing]
    /\ outcome = [t \in Threads |-> None]
    /\ io = IO(0, <<>>, <<>>, None)

\* one caller thread: calls on the Client come one after another
Init == InitWith("WebClient", {1}, "plain", MaxAttempts)

\* login is about to return or raise `out`
Return(t, out) ==
    /\ outcome' = [outcome EXCEPT ![t] = out]
    /\ pc' = [pc EXCEPT ![t] = "login_ret"]

(* ------------------------------- login --------------------------------- *)
\* as already_logged_on, had login no early return
already_logged_on_ignored(c) == FALSE

\* line 224: if self.logged_on
already_logged_on(c) == c.logged_on

\* lines 222-228 of login, called with the arguments a
login_enter(t, a) ==
    /\ client' = [client EXCEPT !.username = a.username, !.password = a.password]
    /\ args' = [args EXCEPT ![t] = a]
    /\ IF already_logged_on(client)
       THEN /\ Return(t, Session)
            /\ UNCHANGED <<captcha, left>>
       ELSE /\ left > 0
            /\ left' = left - 1
            /\ pc' = [pc EXCEPT ![t] = "load_key"]
            /\ captcha' = [captcha EXCEPT ![t] =
                              IF a.captcha = "" /\ client.captcha_code # ""
                              THEN client.captcha_code ELSE a.captcha]
            /\ UNCHANGED outcome
    /\ io' = IO(t, <<>>, <<>>, None)
    /\ UNCHANGED <<inCli, rsaResp, inflight, resp, server, peer>>

login(t) ==
    /\ pc[t] = "idle"
    /\ \E a \in ArgSets : login_enter(t, a)

\* __load_key: `if not self.key`, then get_rsa_key posts to /login/getrsakey/
load_key(t) ==
    /\ pc[t] = "load_key"
    /\ IF ~need_key(client)
       THEN /\ pc' = [pc EXCEPT ![t] = "send_login"]
            /\ io' = IO(t, <<>>, <<>>, None)
            /\ UNCHANGED inflight
       ELSE /\ pc' = [pc EXCEPT ![t] = "rsa_wait"]
            /\ inflight' = [inflight EXCEPT ![t] =
                               Some([url |-> "getrsakey", data |-> [username |-> client.username],
                                     status |-> "pending"])]
            /\ io' = IO(t, <<"getrsakey">>, <<>>, None)
    /\ UNCHANGED <<client, inCli, args, captcha, rsaResp, resp, outcome, server, left, peer>>

\* get_rsa_key returns the JSON of a 200 answer, or raises HTTPError; then
\* line 113 assigns self.key
get_rsa_key_response(t) ==
    /\ pc[t] = "rsa_wait"
    /\ io' = IO(t, <<>>, <<>>, None)
    /\ \E reply \in RsaReplies(inflight[t][1].data.username) :
          LET got == get_rsa_key(reply)
          IN  /\ inflight' = [inflight EXCEPT ![t][1].status = reply.status]
              /\ IF got.raised # None
                 THEN /\ Return(t, got.raised)
                      /\ UNCHANGED <<client, rsaResp>>
                 ELSE /\ client' = [client EXCEPT !.key =
                                       Some(rsa_publickey(HexInt(got.json[1].publickey_mod),
                                                          HexInt(got.json[1].publickey_exp)))]
                      /\ rsaResp' = [rsaResp EXCEPT ![t] = got.json]
                      /\ pc' = [pc EXCEPT ![t] = "load_ts"]
                      /\ UNCHANGED outcome
    /\ UNCHANGED <<inCli, args, captcha, resp, server, left, peer>>

\* line 114: self.timestamp = resp['timestamp']
load_key_timestamp(t) ==
    /\ pc[t] = "load_ts"
    /\ client' = [client EXCEPT !.timestamp = Some(rsaResp[t][1].timestamp)]
    /\ rsaResp' = [rsaResp EXCEPT ![t] = Nothing]
    /\ pc' = [pc EXCEPT ![t] = "send_login"]
    /\ io' = IO(t, <<>>, <<>>, None)
    /\ UNCHANGED <<inCli, args, captcha, inflight, resp, outcome, server, left, peer>>

\* __send_login up to session.post: builds the form and sends it
send_login(t) ==
    /\ pc[t] = "send_login"
    /\ IF send_login_raises(client, args[t].email_code)
       THEN /\ Return(t, "AttributeError")
            /\ io' = IO(t, <<>>, <<>>, None)
            /\ UNCHANGED <<client, inflight>>
       ELSE LET data == send_login_data(client, captcha[t], args[t].email_code,
                                        args[t].twofactor_code)
            IN  /\ client' = [client EXCEPT !.cookies = send_login_cookies(client)]
                /\ inflight' = [inflight EXCEPT ![t] = Some([url |-> "dologin", data |-> data,
                                                             status |-> "pending"])]
                /\ pc' = [pc EXCEPT ![t] = "login_wait"]
                /\ io' = IO(t, <<"dologin">>, <<>>, None)
                /\ UNCHANGED outcome
    /\ UNCHANGED <<inCli, args, captcha, rsaResp, resp, server, left, peer>>

\* session.post returns: HTTPError, or the JSON that login then classifies
\* (lines 232-277)
dologin_response(t) ==
    /\ pc[t] = "login_wait"
    /\ io' = IO(t, <<>>, <<>>, None)
    /\ \E reply \in DoLoginReplies(client.cls, server), sid \in SessionIds(server) :
          LET got == send_login_result(reply)
              set_cookie == IF reply.status = "200" THEN reply.json[1].set_cookie ELSE <<>>
              jar == send_login_finally(client, CookieSetAll(client.cookies, set_cookie))
              res == login_classify([client EXCEPT !.cookies = jar], got.json[1], sid,
                                    args[t].language)
          IN  /\ inflight' = [inflight EXCEPT ![t][1].status = reply.status]
              /\ IF got.raised # None
                 THEN /\ client' = [client EXCEPT !.cookies = jar]
                      /\ Return(t, got.raised)
                      /\ UNCHANGED resp
                 ELSE /\ client' = res.client
                      /\ resp' = [resp EXCEPT ![t] = got.json]
                      /\ Return(t, res.raised)
    /\ UNCHANGED <<inCli, args, captcha, rsaResp, server, left, peer>>

\* login's frame is left: back in cli_login's try, or in the caller
login_return(t) ==
    /\ pc[t] = "login_ret"
    /\ pc' = [pc EXCEPT ![t] = IF inCli[t] THEN "cli_handle" ELSE "idle"]
    /\ args' = [args EXCEPT ![t] = IF inCli[t] THEN @ ELSE NoArgs]
    /\ captcha' = [captcha EXCEPT ![t] = ""]
    /\ resp' = [resp EXCEPT ![t] = Nothing]
    /\ inflight' = [inflight EXCEPT ![t] = Nothing]
    /\ io' = IO(t, <<>>, <<>>, None)
    /\ UNCHANGED <<client, inCli, rsaResp, outcome, server, left, peer>>

(* ------------------------------ cli_login ------------------------------ *)
\* as ExceptionClasses, had TooManyLoginFailures been derived from LoginIncorrect
ExceptionClasses_toomany(exc) ==
    IF exc = "CaptchaRequiredLoginIncorrect"
    THEN {"CaptchaRequiredLoginIncorrect", "CaptchaRequired", "LoginIncorrect"}
    ELSE IF exc = "TooManyLoginFailures" THEN {"TooManyLoginFailures", "LoginIncorrect"}
    ELSE {exc}

\* the classes an exception is an instance of
ExceptionClasses(exc) ==
    IF exc = "CaptchaRequiredLoginIncorrect"
    THEN {"CaptchaRequiredLoginIncorrect", "CaptchaRequired", "LoginIncorrect"}
    ELSE {exc}

\* the except clauses of cli_login, in the order they are written
CliExcepts == <<"LoginIncorrect", "CaptchaRequired", "EmailCodeRequired", "TwoFactorCodeRequired">>

\* the clause that catches exc: the first one exc is an instance of, or None
cli_handler(exc) ==
    LET hits == {i \in 1..Len(CliExcepts) : CliExcepts[i] \in ExceptionClasses(exc)}
    IN  IF hits = {} THEN None
        ELSE CliExcepts[CHOOSE i \in hits : \A j \in hits : i <= j]

\* as cli_email_code, with the two-factor code left as it was
cli_email_code_keeps_twofactor(a, x) == [a EXCEPT !.email_code = x]

\* lines 327-329: the arguments after the EmailCodeRequired clause read x
cli_email_code(a, x) == [a EXCEPT !.email_code = x, !.twofactor_code = ""]

\* lines 331-333: the arguments after the TwoFactorCodeRequired clause read x
cli_twofactor_code(a, x) == [a EXCEPT !.email_code = "", !.twofactor_code = x]

\* lines 306-310: ask for what was not given (askU, askP: the argument was '')
cli_login(t) ==
    /\ pc[t] = "idle"
    /\ \E a \in ArgSets, askU \in BOOLEAN, askP \in BOOLEAN :
          /\ args' = [args EXCEPT ![t] = a]
          /\ io' = IO(t, <<>>, (IF askU THEN <<"username">> ELSE <<>>) \o
                               (IF askP THEN <<"password">> ELSE <<>>), None)
    /\ inCli' = [inCli EXCEPT ![t] = TRUE]
    /\ pc' = [pc EXCEPT ![t] = "cli_loop"]
    /\ UNCHANGED <<client, captcha, rsaResp, inflight, resp, outcome, server, left, peer>>

\* line 314: return self.login(username, password, captcha, ...)
cli_try(t) ==
    /\ pc[t] = "cli_loop"
    /\ login_enter(t, args[t])

\* what follows the login call of line 314: return, an except clause, or the
\* exception leaves cli_login
cli_except(t) ==
    /\ pc[t] = "cli_handle"
    /\ LET h == IF outcome[t] = Session THEN Session ELSE cli_handler(outcome[t])
       IN  IF h \in {Session, None}
           THEN /\ pc' = [pc EXCEPT ![t] = "idle"]
                /\ inCli' = [inCli EXCEPT ![t] = FALSE]
                /\ args' = [args EXCEPT ![t] = NoArgs]
                /\ io' = IO(t, <<>>, <<>>, outcome[t])
           ELSE /\ pc' = [pc EXCEPT ![t] = "cli_loop"]
                /\ UNCHANGED inCli
                /\ IF h = "LoginIncorrect"
                   THEN \E cr \in Credentials :
                           /\ args' = [args EXCEPT ![t].username = cr[1], ![t].password = cr[2]]
                           /\ io' = IO(t, <<>>, <<"username", "password">>, None)
                   ELSE IF h = "CaptchaRequired"
                   THEN \E x \in CaptchaTexts :
                           /\ args' = [args EXCEPT ![t].captcha = x]
                           /\ io' = IO(t, <<>>, <<"captcha">>, None)
                   ELSE IF h = "EmailCodeRequired"
                   THEN \E x \in EmailCodes :
                           /\ args' = [args EXCEPT ![t] = cli_email_code(@, x)]
                           /\ io' = IO(t, <<>>, <<"email_code">>, None)
                   ELSE \E x \in TwoFactorCodes :
                           /\ args' = [args EXCEPT ![t] = cli_twofactor_code(@, x)]
                           /\ io' = IO(t, <<>>, <<"twofactor_code">>, None)
    /\ UNCHANGED <<client, captcha, rsaResp, inflight, resp, outcome, server, left, peer>>

(* ----------------------- login_required methods ------------------------ *)
\* the decorator: raise LoginRequired unless self.client.logged_on
login_required(c) == c.logged_on

\* GET of the community page; `alive`: the page shows the username
is_session_alive(t) ==
    /\ pc[t] = "idle"
    /\ IF ~login_required(client)
       THEN io' = IO(t, <<>>, <<>>, "LoginRequired")
       ELSE \E alive \in BOOLEAN :
               io' = IO(t, <<"community">>, <<>>, IF alive THEN "True" ELSE "False")
    /\ UNCHANGED <<client, pc, inCli, args, captcha, rsaResp, inflight, resp, outcome, server, left, peer>>

\* as logout_result, had logout not looked at is_session_alive()
logout_result_unchecked(alive) == "Returned"

\* lines 359-361: raise UnsuccessfulLogout if self.is_session_alive()
logout_result(alive) == IF alive THEN "UnsuccessfulLogout" ELSE "Returned"

\* POST to /logout/, then is_session_alive decides; `alive` is what it found
logout(t) ==
    /\ pc[t] = "idle"
    /\ IF ~login_required(client)
       THEN /\ io' = IO(t, <<>>, <<>>, "LoginRequired")
            /\ UNCHANGED client
       ELSE \E alive \in BOOLEAN :
               /\ io' = [by |-> t, sent |-> <<"logout", "community">>, prompts |-> <<>>,
                         result |-> logout_result(alive), alive |-> alive]
               /\ IF logout_result(alive) = "Returned"
                  THEN client' = [client EXCEPT !.logged_on = FALSE]
                  ELSE UNCHANGED client
    /\ UNCHANGED <<pc, inCli, args, captcha, rsaResp, inflight, resp, outcome, server, left, peer>>

\* Profile.get_my_profile: get_profile(self.client.steamid.steamid64, ...)
get_my_profile(t) ==
    /\ pc[t] = "idle"
    /\ IF ~login_required(client)
       THEN io' = IO(t, <<>>, <<>>, "LoginRequired")
       ELSE IF client.steamid = Nothing
       THEN io' = IO(t, <<>>, <<>>, "AttributeError")
       ELSE io' = IO(t, <<"profile">>, <<>>, "Returned")
    /\ UNCHANGED <<client, pc, inCli, args, captcha, rsaResp, inflight, resp, outcome, server, left, peer>>

(* --------------------------- Account.unlock ---------------------------- *)
LowerCase == "abcdefghijklmnopqrstuvwxyz"
UpperCase == "ABCDEFGHIJKLMNOPQRSTUVWXYZ"
Char(s, i) == SubSeq(s, i, i)

\* str.upper(): each lower-case letter by its capital, the rest as it is
RECURSIVE upper(_)
upper(s) ==
    IF s = "" THEN ""
    ELSE LET c == Char(s, 1)
             at == {i \in 1..Len(LowerCase) : Char(LowerCase, i) = c}
         IN  (IF at = {} THEN c ELSE Char(UpperCase, CHOOSE i \in at : TRUE))
                \o upper(SubSeq(s, 2, Len(s)))

\* lines 247-253 of unlock: Some(the unlockcode to post), or Nothing when
\* InvalidUnlockCode is raised (and swallowed by the bare except)
unlock_code_checked(unlock_code) ==
    LET code == IF Len(unlock_code) = 6 THEN "L" \o unlock_code ELSE unlock_code
    IN  IF Len(code) # 7 \/ Char(code, 1) # "L" THEN Nothing ELSE Some(upper(code))

\* the codes unlock is called with: the four documented forms of one code,
\* and codes of other lengths or with another first letter
DocumentedCodes == {"L8CP37T", "8CP37T", "l8cp37t", "8cp37t"}
UnlockCodes == DocumentedCodes \cup {"", "8CP37", "X8CP37T", "L8CP37TT"}

\* Account.unlock(unlock_code); the answer to the request is not looked at
unlock(t) ==
    /\ pc[t] = "idle"
    /\ IF ~login_required(client)
       THEN io' = IO(t, <<>>, <<>>, "LoginRequired")
       ELSE \E unlock_code \in UnlockCodes :
               LET code == unlock_code_checked(unlock_code)
               IN  io' = [by |-> t, prompts |-> <<>>, result |-> "Returned",
                          sent |-> IF code = Nothing THEN <<>> ELSE <<"AccountUnlock">>,
                          unlock_code |-> unlock_code,
                          data |-> IF code = Nothing THEN Nothing
                                   ELSE Some([sessionid |-> client.session_id,
                                              unlockcode |-> code[1]])]
    /\ UNCHANGED <<client, pc, inCli, args, captcha, rsaResp, inflight, resp, outcome, server, left, peer>>

(* --------------------------- specifications ---------------------------- *)
Next ==
    \E t \in Threads :
        \/ login(t)
        \/ load_key(t)
        \/ get_rsa_key_response(t)
        \/ load_key_timestamp(t)
        \/ send_login(t)
        \/ dologin_response(t)
        \/ login_return(t)
        \/ cli_login(t)
        \/ cli_try(t)
        \/ cli_except(t)
        \/ is_session_alive(t)
        \/ logout(t)
        \/ get_my_profile(t)
        \/ unlock(t)

Spec == Init /\ [][Next]_vars

\* a MobileClient, one caller thread
InitMobile == InitWith("MobileClient", {1}, "plain", MaxAttempts)
SpecMobile == InitMobile /\ [][Next]_vars

\* the same, and a call that can take a step does: login, once back from its
\* request, returns to its caller, and cli_login handles what login gave it
SpecMobileLive ==
    SpecMobile /\ \A t \in Threads : WF_vars(login_return(t)) /\ WF_vars(cli_except(t))

\* a WebClient and a server that may set any combination of flags; one attempt
InitClassify == InitWith("WebClient", {1}, "any", 1)
SpecClassify == InitClassify /\ [][Next]_vars

\* two threads call login on one WebClient
InitThreads == InitWith("WebClient", Threads, "brief", MaxAttempts)
\* login(username, password): the other arguments at their defaults
login_defaults(t) ==
    /\ pc[t] = "idle"
    /\ \E a \in ArgSets :
          /\ a.captcha = "" /\ a.email_code = "" /\ a.twofactor_code = ""
          /\ login_enter(t, a)

NextThreads ==
    \E t \in Threads :
        \/ login_defaults(t)
        \/ load_key(t)
        \/ get_rsa_key_response(t)
        \/ load_key_timestamp(t)
        \/ send_login(t)
        \/ dologin_response(t)
        \/ login_return(t)
SpecThreads == InitThreads /\ [][NextThreads]_vars

\* one caller logs in, logs out and logs in again, in a language of its
\* choice, at a server that renews its login cookie
InitCookies == InitWith("WebClient", {1}, "cookies", MaxAttempts)
login_language(t) ==
    /\ pc[t] = "idle"
    /\ \E a \in ArgSets, l \in Languages \cup OtherLanguages :
          /\ a.captcha = "" /\ a.email_code = "" /\ a.twofactor_code = ""
          /\ login_enter(t, [a EXCEPT !.language = l])
NextCookies ==
    \E t \in Threads :
        \/ login_language(t)
        \/ load_key(t)
        \/ get_rsa_key_response(t)
        \/ load_key_timestamp(t)
        \/ send_login(t)
        \/ dologin_response(t)
        \/ login_return(t)
        \/ logout(t)
SpecCookies == InitCookies /\ [][NextCookies]_vars

\* one login, with any of the readings of urandom
InitSessionIds == InitWith("WebClient", {1}, "ids", 1)
SpecSessionIds == InitSessionIds /\ [][NextCookies]_vars

(* ---------------------------- two instances ---------------------------- *)
\* as SharedAttributes, had the session been made in the class body
SharedAttributes_session == {"cookies"}

\* the attributes whose object all instances have in common.  The class body
\* binds only None, '', False and -1, every method assigns through self, and
\* __init__ makes a requests.Session of the instance's own: none
SharedAttributes == {}

\* two WebClient instances; thread t calls the methods of instance t, the
\* first through cli_login or login, the second through login
InitInstances ==
    /\ peer = [id |-> 2, attrs |-> NewClient("WebClient")]
    /\ client = NewClient("WebClient")
    /\ server = "pair"
    /\ left = MaxAttempts
    /\ pc = [t \in Threads |-> "idle"]
    /\ inCli = [t \in Threads |-> FALSE]
    /\ args = [t \in Threads |-> NoArgs]
    /\ captcha = [t \in Threads |-> ""]
    /\ rsaResp = [t \in Threads |-> Nothing]
    /\ inflight = [t \in Threads |-> Nothing]
    /\ resp = [t \in Threads |-> Nothing]
    /\ outcome = [t \in Threads |-> None]
    /\ io = IO(0, <<>>, <<>>, None)

\* cli_login(username, password): nothing to ask for before the loop, the
\* other arguments at their defaults
cli_login_defaults(t) ==
    /\ pc[t] = "idle"
    /\ \E a \in ArgSets :
          /\ a.captcha = "" /\ a.email_code = "" /\ a.twofactor_code = ""
          /\ args' = [args EXCEPT ![t] = a]
    /\ io' = IO(t, <<>>, <<>>, None)
    /\ inCli' = [inCli EXCEPT ![t] = TRUE]
    /\ pc' = [pc EXCEPT ![t] = "cli_loop"]
    /\ UNCHANGED <<client, captcha, rsaResp, inflight, resp, outcome, server, left, peer>>

\* the instance whose method runs next
Self == 3 - peer.id

\* the thread of the other instance is scheduled: from here on `client` is
\* that instance, seen through its own attributes and the shared objects
instance_switch ==
    /\ peer.id # 0
    /\ client' = [k \in DOMAIN client |->
                     IF k \in SharedAttributes THEN client[k] ELSE peer.attrs[k]]
    /\ peer' = [id |-> Self, attrs |-> client]
    /\ UNCHANGED <<pc, inCli, args, captcha, rsaResp, inflight, resp, outcome, server, left, io>>

NextInstances ==
    \/ instance_switch
    \/ \E t \in Threads :
          \/ t = Self /\ login_defaults(t)
          \/ t = Self /\ load_key(t)
          \/ t = Self /\ get_rsa_key_response(t)
          \/ t = Self /\ load_key_timestamp(t)
          \/ t = Self /\ send_login(t)
          \/ t = Self /\ dologin_response(t)
          \/ t = Self /\ login_return(t)
          \/ t = Self /\ t = 1 /\ cli_login_defaults(t)
          \/ t = Self /\ cli_try(t)
          \/ t = Self /\ cli_except(t)
          \/ t = Self /\ logout(t)
SpecInstances == InitInstances /\ [][NextInstances]_vars

(* ------------------------- SteamID on its own -------------------------- *)
\* the tokens SteamID() is built from: numbers from 0 to beyond 2 ** 64 (in
\* limbs: below 2 ** 32, between 2 ** 32 and the base, from the base on, at
\* and over 2 ** 64), and one that is not a number
IdentityTokens ==
    {Token(TRUE, <<a, b, c, d>>) : a \in {0, 272, 273, Limb - 1, Limb}, b \in {0, 1, 2, Limb - 1},
                                  c \in {0, 1, Limb - 1}, d \in {0, 1, Limb - 1}}
    \cup {Token(FALSE, Zero)}

\* str(n) of an int: the text of a negative one starts with '-', no digit
StrInt(n) == IF n[1] < 0 THEN Token(FALSE, n) ELSE Str(n)

\* SteamID(token): what it was built from, and how that token was come by
\* ("token": given; else the attribute of the identity built from `origin`)
Built(token, via, origin) ==
    [token |-> token, identity |-> SteamID(token), via |-> via, origin |-> origin]

InitIdentity == InitWith("WebClient", {}, "plain", 0)

SteamID_of_token(t) ==
    /\ \E token \in IdentityTokens : io' = IO(t, <<>>, <<>>, Built(token, "token", token))
    /\ UNCHANGED <<client, pc, inCli, args, captcha, rsaResp, inflight, resp, outcome, server, left, peer>>

\* SteamID(identity.steamid64)
SteamID_of_steamid64(t) ==
    /\ io.by # 0
    /\ io' = IO(t, <<>>, <<>>, Built(StrInt(io.result.identity.steamid64), "steamid64",
                                     io.result.token))
    /\ UNCHANGED <<client, pc, inCli, args, captcha, rsaResp, inflight, resp, outcome, server, left, peer>>

\* SteamID(identity.accountid)
SteamID_of_accountid(t) ==
    /\ io.by # 0
    /\ io' = IO(t, <<>>, <<>>, Built(StrInt(io.result.identity.accountid), "accountid",
                                     io.result.token))
    /\ UNCHANGED <<client, pc, inCli, args, captcha, rsaResp, inflight, resp, outcome, server, left, peer>>

NextIdentity ==
    \/ SteamID_of_token(1)
    \/ SteamID_of_steamid64(1)
    \/ SteamID_of_accountid(1)
SpecIdentity == InitIdentity /\ [][NextIdentity]_vars

(* ------------------------------- claims -------------------------------- *)
Sent(x, url) == \E i \in 1..Len(x.sent) : x.sent[i] = url
\* thread t takes this step
Steps(t) == pc'[t] # pc[t]
AttemptPcs == {"load_key", "rsa_wait", "load_ts", "send_login", "login_wait"}
\* the request of t's call failed at transport level
Failed(t) == inflight[t] # Nothing /\ inflight[t][1].status \in {"500", "network"}
\* login has classified a response and is about to return or raise
Classified(t) == pc[t] = "login_ret" /\ resp[t] # Nothing

\* the rules of the claim, in its order, as <<rule applies, outcome>>
RuleTable(r) ==
    << <<r.success /\ r.login_complete, Session>>,
       <<r.captcha_needed /\ r.clear_password_field, "CaptchaRequiredLoginIncorrect">>,
       <<r.captcha_needed, "CaptchaRequired">>,
       <<r.emailauth_needed, "EmailCodeRequired">>,
       <<r.requires_twofactor, "TwoFactorCodeRequired">>,
       <<Contains(r.message, "too many login failures"), "TooManyLoginFailures">>,
       <<TRUE, "LoginIncorrect">> >>
FirstRule(r) ==
    LET tab == RuleTable(r)
        i == CHOOSE i \in 1..Len(tab) : tab[i][1] /\ \A j \in 1..(i - 1) : ~tab[j][1]
    IN  tab[i][2]

\* C1: for every dologin response, the outcome of WebClient.login is that of
\* the first rule that matches, in the order success+login_complete, captcha
\* (with or without clear_password_field), emailauth, twofactor, too many
\* login failures, LoginIncorrect; success without login_complete is no Success.
C1_FirstRuleDecides ==
    \A t \in Threads : Classified(t) => outcome[t] = FirstRule(resp[t][1])

\* several flags at once, and success without login_complete: captcha wins
C1_Witness ==
    \E t \in Threads :
        /\ Classified(t)
        /\ resp[t][1].success /\ ~resp[t][1].login_complete
        /\ resp[t][1].captcha_needed /\ resp[t][1].emailauth_needed
        /\ resp[t][1].requires_twofactor
        /\ outcome[t] = "CaptchaRequired"

\* C2: when the session is authenticated, or the last login outcome was
\* LoginIncorrect, the stored password is empty (also after a login call made
\* while already authenticated).
C2_PasswordNotRetained ==
    \A t \in Threads :
        (pc[t] \in {"idle", "login_ret", "cli_handle", "cli_loop"}
            /\ (client.logged_on \/ outcome[t] = "LoginIncorrect"))
        => client.password = ""

\* C3: a MobileClient that receives a completed success whose oauth field
\* holds steamid S and oauth_token T ends logged in as SteamID(S) with
\* oauth_token T.
C3_MobileIdentityFromOauth ==
    \A t \in Threads :
        (Classified(t) /\ resp[t][1].success /\ resp[t][1].login_complete
            /\ resp[t][1].oauth # Nothing)
        => /\ outcome[t] = Session
           /\ client.steamid = Some(SteamID(resp[t][1].oauth[1].steamid))
           /\ client.oauth_token = resp[t][1].oauth[1].oauth_token

\* C4: in cli_login, after CaptchaRequired or CaptchaRequiredLoginIncorrect
\* the next step prompts for a captcha answer and nothing else, and the next
\* submission carries that answer.
C4_CaptchaPrompted ==
    [][\A t \in Threads :
          /\ (Steps(t) /\ pc[t] = "cli_handle"
                /\ outcome[t] \in {"CaptchaRequired", "CaptchaRequiredLoginIncorrect"})
             => (pc'[t] = "cli_loop" /\ io'.prompts = <<"captcha">>)
          /\ (Steps(t) /\ inCli[t] /\ pc[t] = "send_login" /\ pc'[t] = "login_wait")
             => inflight'[t][1].data.captcha_text = args[t].captcha]_vars

\* C5: in cli_login, TooManyLoginFailures and HTTPError leave cli_login as
\* they are: no prompt, no further request.
C5_TerminalOutcomesPropagate ==
    [][\A t \in Threads :
          (Steps(t) /\ pc[t] = "cli_handle"
             /\ outcome[t] \in {"TooManyLoginFailures", "HTTPError"})
          => /\ pc'[t] = "idle" /\ ~inCli'[t]
             /\ io'.result = outcome[t]
             /\ io'.prompts = <<>> /\ io'.sent = <<>>]_vars

\* cli_login has raised TooManyLoginFailures on its second attempt
C5_Witness ==
    /\ pc[1] = "idle" /\ io.by = 1 /\ io.result = "TooManyLoginFailures"
    /\ left = 0

\* C6: logged_on is true only once the identity has been extracted from the
\* success payload; when __finalize_login fails, logged_on stays false.
C6_LoggedOnOnlyAfterFinalize ==
    \A t \in Threads :
        /\ (Classified(t) /\ outcome[t] = "KeyError") => ~client.logged_on
        /\ client.logged_on => client.steamid # Nothing

\* the key built from a getrsakey answer
KeyOf(r) == rsa_publickey(HexInt(r.publickey_mod), HexInt(r.publickey_exp))
\* the stored key and the stored timestamp come from one getrsakey answer
SameResponse(c) ==
    \E u \in Usernames : \E r \in RsaResponses(u) :
        c.key = Some(KeyOf(r)) /\ c.timestamp = Some(r.timestamp)
\* the threads whose login attempt has started and has no outcome yet
InAttempt == {t \in Threads : pc[t] \in AttemptPcs}

\* C7: with two threads calling login on one Client, at most one attempt is
\* between its start and its outcome at any time, and the stored timestamp
\* belongs to the same getrsakey response as the stored key.
C7_OneAttemptAtATime ==
    /\ Cardinality(InAttempt) <= 1
    /\ (client.key # Nothing /\ client.timestamp # Nothing) => SameResponse(client)

\* C8: getrsakey is sent only while the client holds no key, and before the
\* dologin of the attempt; once key and timestamp are there they never change
\* and no getrsakey is sent again.
C8_KeyFetchedOnce ==
    [][/\ Sent(io', "getrsakey") => (client.key = Nothing /\ pc[io'.by] = "load_key")
       /\ Sent(io', "dologin") => (client.key # Nothing /\ client.timestamp # Nothing)
       /\ (client.key # Nothing /\ client.timestamp # Nothing)
          => /\ client'.key = client.key
             /\ client'.timestamp = client.timestamp
             /\ ~Sent(io', "getrsakey")]_vars

\* the second attempt, after a successful login and a logout, has its dologin
\* out under the key of the first attempt
C8_Witness ==
    /\ pc[1] = "login_wait" /\ left = 0
    /\ ~client.logged_on /\ client.session_id # None
    /\ client.key # Nothing

\* the attributes C9 lists
C9_Listed(c) == <<c.logged_on, c.captcha_gid, c.captcha_code, c.steamid, c.session_id, c.cookies>>

C10_CaptchaGidKept ==
    [][\A t \in Threads :
          /\ (Classified(t)' /\ resp'[t][1].captcha_needed
                /\ ~resp'[t][1].clear_password_field
                /\ ~(resp'[t][1].success /\ resp'[t][1].login_complete))
             => /\ outcome'[t] = "CaptchaRequired"
                /\ client'.captcha_gid = resp'[t][1].captcha_gid[1]
                /\ client'.captcha_code = ""
          /\ (outcome[t] = "CaptchaRequired" /\ pc[t] # "login_wait")
             => client'.captcha_gid = client.captcha_gid
          /\ (Steps(t) /\ outcome[t] = "CaptchaRequired" /\ pc[t] = "send_login"
                /\ pc'[t] = "login_wait")
             => inflight'[t][1].data.captchagid = client.captcha_gid]_vars

\* the submission after a CaptchaRequired is out, with the gid of the challenge
C10_Witness ==
    /\ pc[1] = "login_wait" /\ outcome[1] = "CaptchaRequired"
    /\ client.captcha_gid \in Gids
    /\ inflight[1][1].data.captchagid = client.captcha_gid

\* the thread's login call is over (or about to be left) and no new one has begun
Between(t) == pc[t] \in {"login_ret", "cli_handle", "cli_loop", "idle"}

\* C11: a dologin response with captcha_needed and clear_password_field (no
\* completed success) raises CaptchaRequiredLoginIncorrect; the stored
\* password is empty afterwards and the response's captcha_gid is stored.
C11_CaptchaIncorrectClearsPassword ==
    \A t \in Threads :
        /\ (Classified(t) /\ resp[t][1].captcha_needed /\ resp[t][1].clear_password_field
               /\ ~(resp[t][1].success /\ resp[t][1].login_complete))
           => /\ outcome[t] = "CaptchaRequiredLoginIncorrect"
              /\ client.captcha_gid = resp[t][1].captcha_gid[1]
        /\ (Between(t) /\ outcome[t] = "CaptchaRequiredLoginIncorrect")
           => (client.password = "" /\ client.captcha_gid \in Gids)

\* the second attempt is answered with captcha_needed and clear_password_field
C11_Witness ==
    /\ Classified(1) /\ left = 0
    /\ resp[1][1].captcha_needed /\ resp[1][1].clear_password_field
    /\ outcome[1] = "CaptchaRequiredLoginIncorrect"
    /\ client.password = "" /\ client.captcha_gid = resp[1][1].captcha_gid[1]

\* thread t sends its dologin in this step
Submits(t) == pc[t] = "send_login" /\ pc'[t] = "login_wait"

\* C12: EmailCodeRequired stores the response's email domain and the
\* identity parsed from emailsteamid, with logged_on false; that identity
\* stays the stored one until another EmailCodeRequired or a successful
\* login replaces it; a submission with an email code sends the stored
\* identity's 64-bit form as emailsteamid, one without sends ''.
C12_EmailIdentitySubmitted ==
    [][\A t \in Threads :
          /\ (Classified(t)' /\ outcome'[t] = "EmailCodeRequired")
             => /\ client'.email_domain = resp'[t][1].emaildomain
                /\ client'.steamid = Some(SteamID(resp'[t][1].emailsteamid[1]))
                /\ ~client'.logged_on
          /\ (Steps(t) /\ client'.steamid # client.steamid)
             => (Classified(t)' /\ outcome'[t] \in {"EmailCodeRequired", Session})
          /\ (Steps(t) /\ Submits(t))
             => inflight'[t][1].data.emailsteamid =
                   IF args[t].email_code # ""
                   THEN Str(client.steamid[1].steamid64) ELSE EmptyStr]_vars

\* the submission after an EmailCodeRequired is out, with an email code and
\* the identity of the challenge
C12_Witness ==
    /\ pc[1] = "login_wait" /\ outcome[1] = "EmailCodeRequired"
    /\ args[1].email_code # "" /\ ~client.logged_on
    /\ client.email_domain \in EmailDomains /\ client.steamid # Nothing
    /\ inflight[1][1].data.emailsteamid = Str(client.steamid[1].steamid64)

\* C13: whenever logged_on is true, captcha_gid is -1 and the stored captcha
\* answer is empty, whatever challenges came before the successful login.
C13_LoggedOnClearsCaptcha ==
    client.logged_on => (client.captcha_gid = -1 /\ client.captcha_code = "")

\* a login succeeded with a submission that answered a captcha challenge
C13_Witness ==
    /\ Classified(1) /\ outcome[1] = Session /\ client.logged_on
    /\ inflight[1][1].data.captchagid \in Gids
    /\ client.captcha_gid = -1

\* thread t's login succeeds in this step
Succeeds(t) == Steps(t) /\ Classified(t)' /\ outcome'[t] = Session
\* a cookie of that name, value and secure flag is held for domain d
Holds(jar, name, value, secure, d) ==
    \E j \in 1..Len(jar) : jar[j] = Cookie(name, value, d, secure)
OnEveryDomain(jar, name, value, secure) ==
    \A i \in 1..Len(ServiceDomains) : Holds(jar, name, value, secure, ServiceDomains[i])

\* C14: after a successful login, every cookie the session held for the
\* response domain when the success response arrived (the cookies that
\* response set included; Steam_Language, birthtime and sessionid, which
\* login writes anew, apart) is held with the same name, value and secure
\* flag for each of the three service domains.
C14_CookiesReplicated ==
    [][\A t \in Threads :
          Succeeds(t) =>
             LET held == CookieSetAll(client.cookies, resp'[t][1].set_cookie)
             IN  \A i \in 1..Len(held) :
                    (held[i].domain = ResponseDomain /\ held[i].name \notin SessionCookieNames)
                    => OnEveryDomain(client'.cookies, held[i].name, held[i].value,
                                     held[i].secure)]_vars

\* C15: after every successful login each of the three service domains
\* holds Steam_Language equal to the language argument, birthtime equal to
\* '-3333', and sessionid equal to the session_id stored by that login.
C15_SessionCookiesSet ==
    [][\A t \in Threads :
          Succeeds(t) =>
             /\ client'.session_id \in SessionIds(server)
             /\ OnEveryDomain(client'.cookies, "Steam_Language", args[t].language, FALSE)
             /\ OnEveryDomain(client'.cookies, "birthtime", "-3333", FALSE)
             /\ OnEveryDomain(client'.cookies, "sessionid", client'.session_id, FALSE)]_vars

\* a second login, in another language and with a new session id, has succeeded
C15_Witness ==
    /\ Classified(1) /\ outcome[1] = Session /\ left = 0
    /\ args[1].language = "german" /\ client.session_id = sidB
    /\ Holds(client.cookies, "sessionid", sidB, FALSE, ResponseDomain)
    /\ Holds(client.cookies, "Steam_Language", "german", FALSE, ResponseDomain)

LowerHex == {"0", "1", "2", "3", "4", "5", "6", "7", "8", "9", "a", "b", "c", "d", "e", "f"}
\* exactly 32 characters, each of 0-9 or a-f
WellFormedId(id) == Len(id) = 32 /\ \A i \in 1..32 : SubSeq(id, i, i) \in LowerHex

\* C16: the session_id stored by a successful login, and the sessionid
\* cookies written with it, are strings of exactly 32 characters, each one
\* of 0-9 or a-f.
C16_SessionIdFormat ==
    /\ client.session_id # None => WellFormedId(client.session_id)
    /\ \A j \in 1..Len(client.cookies) :
          client.cookies[j].name = "sessionid" => WellFormedId(client.cookies[j].value)

\* a login stored the id made from the all-255 reading of urandom
C16_Witness ==
    /\ client.logged_on
    /\ client.session_id = generate_session_id(Urandom(0, 255))
    /\ Holds(client.cookies, "sessionid", client.session_id, FALSE, ResponseDomain)

\* an identity has been built
HasIdentity == io.by # 0
\* steamid64 == accountid + 76561197960265728
Offset(identity) == identity.steamid64 = AddBase(identity.accountid)
\* value >= 76561197960265728
AtLeastBase(v) == v[1] > STEAM64_BASE[1] \/ (v[1] = STEAM64_BASE[1] /\ v[2] >= STEAM64_BASE[2])

\* C17 as claimed: for every token, numeric or not and of any size, the
\* identity built from it has steamid64 == accountid + 76561197960265728.
C17_OffsetForEveryToken ==
    HasIdentity => Offset(io.result.identity)

\* C17: the identity built from a numeric token below 2 ** 64 has
\* steamid64 == accountid + 76561197960265728; the one built from a numeric
\* token from 2 ** 64 on, or from a token that is no number, has both at 0.
C17_OffsetForTokensBelow64 ==
    HasIdentity =>
        IF io.result.token.isdigit /\ Below64(io.result.token.n)
        THEN Offset(io.result.identity)
        ELSE io.result.identity = [steamid64 |-> Zero, accountid |-> Zero]

\* an identity built from a number between 2 ** 32 and the base: its account
\* id is negative, and the offset still holds
C17_Witness ==
    /\ HasIdentity /\ io.result.via = "token"
    /\ io.result.token.isdigit /\ io.result.token.n = <<0, 1, 0, 1>>
    /\ io.result.identity.accountid[1] < 0
    /\ Offset(io.result.identity)

\* C18: for every X with 0 <= X < 2 ** 32, the identity built from the
\* steamid64 of the identity built from X has accountid == X.
C18_ShortRoundTrip ==
    (/\ HasIdentity /\ io.result.via = "steamid64"
     /\ io.result.origin.isdigit
     /\ io.result.origin.n[1] = 0 /\ io.result.origin.n[2] = 0)
    => io.result.identity.accountid = io.result.origin.n

\* C19: for every Y with 76561197960265728 <= Y < 2 ** 64, the identity
\* built from the accountid of the identity built from Y has steamid64 == Y.
C19_LongRoundTrip ==
    (/\ HasIdentity /\ io.result.via = "accountid"
     /\ io.result.origin.isdigit
     /\ AtLeastBase(io.result.origin.n) /\ Below64(io.result.origin.n))
    => io.result.identity.steamid64 = io.result.origin.n

\* cli_login's except clause for `exc` runs in this step
Handles(t, exc) == pc[t] = "cli_handle" /\ outcome[t] = exc
\* thread t stays inside one run of cli_login's loop over this step
InLoop(t) == inCli[t] /\ inCli'[t]

Named(jar, name) == \E i \in 1..Len(jar) : jar[i].name = name
\* thread t's login call has sent its dologin request
Submitted(t) == inflight[t] # Nothing /\ inflight[t][1].url = "dologin"

\* C21: every dologin submission of a MobileClient carries loginfriendlyname
\* 'mobileauth', oauth_client_id and oauth_scope; the mobileClient and
\* mobileClientVersion cookies are in the jar while the request is out, and in
\* no jar once the attempt has ended.
C21_MobileSubmission ==
    client.cls = "MobileClient" =>
        /\ \A t \in Threads :
              Submitted(t) =>
                 /\ inflight[t][1].data.loginfriendlyname = "mobileauth"
                 /\ inflight[t][1].data.oauth_client_id # None
                 /\ inflight[t][1].data.oauth_scope # None
                 /\ inflight[t][1].status = "pending" =>
                        /\ Named(client.cookies, "mobileClient")
                        /\ Named(client.cookies, "mobileClientVersion")
        /\ (\A t \in Threads : pc[t] \notin {"login_wait"}) =>
              /\ ~Named(client.cookies, "mobileClient")
              /\ ~Named(client.cookies, "mobileClientVersion")

GuardedCall(t) == pc[t] = "idle" /\ pc'[t] = "idle" /\ io'.by = t /\ io' # io
\* LoginRequired is raised, nothing is sent, the client is as before
Refused == io'.result = "LoginRequired" /\ io'.sent = <<>> /\ client' = client
\* no login was made yet, or the last one failed or was challenged, or a
\* logout has just returned
NotLoggedInYet(t) == outcome[t] # Session \/ (Sent(io, "logout") /\ io.result = "Returned")

\* C23: an operation guarded by login_required that is called while logged_on
\* is false raises LoginRequired, sends no request and leaves the client as it
\* was; so do the calls made before any login, after a failed or challenged
\* login and after a logout that returned.
C23_GuardRefuses ==
    [][\A t \in Threads :
          (GuardedCall(t) /\ (~client.logged_on \/ NotLoggedInYet(t))) => Refused]_vars

\* the getrsakey answers the key `key` can have been built from
BuiltFrom(key) ==
    {r \in UNION {RsaResponses(u) : u \in Usernames} :
        rsa_publickey(HexInt(r.publickey_mod), HexInt(r.publickey_exp)) = key}

\* C24: the rsatimestamp of every dologin submission is the timestamp of the
\* getrsakey answer from which the key that encrypts the submission's
\* password was built.
C24_TimestampEchoed ==
    \A t \in Threads :
        Submitted(t) =>
            /\ BuiltFrom(inflight[t][1].data.password.b64.under) # {}
            /\ \A r \in BuiltFrom(inflight[t][1].data.password.b64.under) :
                   inflight[t][1].data.rsatimestamp = r.timestamp

\* a later attempt is out, made with the second of the server's keys
C24_Witness ==
    /\ Submitted(1) /\ inflight[1][1].status = "pending"
    /\ left <= MaxAttempts - 2
    /\ inflight[1][1].data.rsatimestamp = 2
    /\ inflight[1][1].data.password.b64.under = client.key[1]

\* cli_login returns in this step
CliReturns(t) == pc[t] = "cli_handle" /\ pc'[t] = "idle" /\ io'.result = Session
\* inside cli_login, the server has answered the submission with a completed
\* success
SuccessAnswered(t) ==
    /\ inCli[t] /\ pc[t] = "login_ret" /\ resp[t] # Nothing
    /\ resp[t][1].success /\ resp[t][1].login_complete
\* cli_login has returned the session
CliReturned(t) == ~inCli[t] /\ pc[t] = "idle" /\ io.by = t /\ io.result = Session

\* C25: cli_login returns only with a successful login behind it, and then it
\* returns the session of a client whose logged_on is true; handling
\* LoginIncorrect it asks for a username and a password, and every submission
\* of the loop carries the username and password the loop then holds; and once
\* the server has answered a submission with a completed success, cli_login
\* returns.
C25_CliLoginReturns ==
    /\ [][\A t \in Threads :
             /\ CliReturns(t) => outcome[t] = Session /\ client.logged_on
             /\ Handles(t, "LoginIncorrect") => io'.prompts = <<"username", "password">>
             /\ (InLoop(t) /\ Submits(t)) =>
                   /\ inflight'[t][1].data.username = args[t].username
                   /\ inflight'[t][1].data.password.b64.plaintext = args[t].password]_vars
    /\ \A t \in Threads : SuccessAnswered(t) ~> CliReturned(t)

\* Account.unlock was the last call
Unlocking == "unlock_code" \in DOMAIN io

\* C26: unlock called with one of the four documented forms of a code posts
\* one AccountUnlock request whose unlockcode is the 7-character form with a
\* capital L; called with any other code it posts nothing.
C26_UnlockForms ==
    Unlocking =>
        IF io.unlock_code \in DocumentedCodes
        THEN /\ io.sent = <<"AccountUnlock">>
             /\ io.data # Nothing
             /\ io.data[1].unlockcode = "L8CP37T"
        ELSE io.sent = <<>> /\ io.data = Nothing

\* thread t calls login in this step (from its caller or from cli_login)
LoginCalled(t) == pc[t] \in {"idle", "cli_loop"} /\ pc'[t] \in {"load_key", "login_ret"}
\* login's frame is left in this step
LoginLeft(t) == pc[t] = "login_ret" /\ pc'[t] # "login_ret"
\* login was entered on an authenticated client and is about to return
EarlyReturn(t) == pc[t] = "login_ret" /\ inflight[t] = Nothing /\ outcome[t] = Session

\* C27: a login call on a client whose logged_on is true returns the session,
\* sends neither a getrsakey nor a dologin request, and leaves session_id,
\* identity, key, timestamp, captcha state and cookies as they were.
C27_LoggedOnLoginIsNoOp ==
    [][\A t \in Threads :
          /\ (LoginCalled(t) /\ client.logged_on) =>
                /\ pc'[t] = "login_ret" /\ outcome'[t] = Session
                /\ io'.sent = <<>> /\ inflight'[t] = Nothing
                /\ client'.session_id = client.session_id
                /\ client'.steamid = client.steamid
                /\ client'.key = client.key
                /\ client'.timestamp = client.timestamp
                /\ client'.captcha_gid = client.captcha_gid
                /\ client'.captcha_code = client.captcha_code
                /\ client'.cookies = client.cookies
                /\ client'.logged_on
          /\ (LoginLeft(t) /\ EarlyReturn(t)) =>
                /\ io'.sent = <<>> /\ client' = client]_vars

\* a login call on an authenticated client is about to return the session
C27_Witness ==
    /\ EarlyReturn(1) /\ resp[1] = Nothing
    /\ client.logged_on /\ client.session_id # None /\ client.cookies # <<>>

\* C28: in every dologin submission the password is encrypted under a key
\* that a getrsakey request for the submission's own username returned, also
\* after the username changed between attempts on the Client.
C28_KeyOfSubmittedUsername ==
    \A t \in Threads :
        Submitted(t) =>
            /\ BuiltFrom(inflight[t][1].data.password.b64.under) # {}
            /\ BuiltFrom(inflight[t][1].data.password.b64.under)
                  \subseteq RsaResponses(inflight[t][1].data.username)

\* the outcomes login documents: the session, a login exception, HTTPError
TypedOutcomes == {Session, "HTTPError"} \cup LoginExceptions

\* C29: a login call with an email code on a Client that holds no identity
\* sends its dologin submission all the same, and ends with the session, one
\* of the login exceptions or HTTPError.
C29_EmailCodeWithoutIdentity ==
    [][\A t \in Threads :
          (pc[t] = "send_login" /\ Steps(t)
              /\ args[t].email_code # "" /\ client.steamid = Nothing)
          => /\ Submits(t)
             /\ io'.sent = <<"dologin">>
             /\ pc'[t] = "login_ret" => outcome'[t] \in TypedOutcomes]_vars

\* logout has sent its request in this step
LogsOut == Sent(io', "logout") /\ io' # io
\* a login succeeded on this client, and a logout after it returned
AfterLogout == ~client.logged_on /\ client.session_id # None
\* every sessionid cookie of the jar has that value
OnlySessionId(jar, id) == \A i \in 1..Len(jar) : jar[i].name = "sessionid" => jar[i].value = id

\* C30: logged_on becomes false only in a logout whose is_session_alive()
\* after the request found the session gone; a logout that finds it alive
\* raises UnsuccessfulLogout and leaves logged_on true.  After a logout that
\* returned, a login call starts an attempt that sends a dologin submission,
\* and when that succeeds the stored session_id is a generated one and the
\* sessionid cookies of all three domains hold it.
C30_LogoutThenLogin ==
    [][/\ (client.logged_on /\ ~client'.logged_on) =>
             LogsOut /\ ~io'.alive /\ io'.result = "Returned"
       /\ (LogsOut /\ io'.alive) =>
             io'.result = "UnsuccessfulLogout" /\ client' = client /\ client'.logged_on
       /\ (LogsOut /\ ~io'.alive) => ~client'.logged_on
       /\ \A t \in Threads :
             /\ (AfterLogout /\ LoginCalled(t)) => pc'[t] = "load_key"
             /\ (AfterLogout /\ pc[t] = "load_key" /\ Steps(t)) => pc'[t] = "send_login"
             /\ (AfterLogout /\ pc[t] = "send_login" /\ Steps(t)) =>
                   Submits(t) /\ io'.sent = <<"dologin">>
             /\ (AfterLogout /\ Succeeds(t)) =>
                   /\ client'.logged_on
                   /\ client'.session_id \in SessionIds(server)
                   /\ OnEveryDomain(client'.cookies, "sessionid", client'.session_id, FALSE)
                   /\ OnlySessionId(client'.cookies, client'.session_id)]_vars

\* a logout has returned and the next login call has just sent its dologin
\* submission; the client still holds the id and the sessionid cookies of the
\* session it logged out of, which the success of this attempt replaces
C30_Witness ==
    /\ AfterLogout /\ pc[1] = "login_wait" /\ io.sent = <<"dologin">>
    /\ inflight[1] # Nothing
    /\ client.session_id \in SessionIds(server)
    /\ OnEveryDomain(client.cookies, "sessionid", client.session_id, FALSE)

====
